---- MODULE Spec2Model ----
(***************************************************************************)
(* Model of the retrying, key-rotating request layer of                    *)
(* services/geminiService.ts: ApiKeyManager, retryWithBackoff and the four *)
(* exported task functions (processStudyContent, extendQuiz,               *)
(* generateQuestionForFailure, generateAdditionalFlashcards).              *)
(*                                                                         *)
(* Texts (model responses, error messages, JSON keys) are sequences of     *)
(* one-character strings, so that includes/trim/startsWith/endsWith and    *)
(* JSON.parse are computed character by character.                         *)
(***************************************************************************)
EXTENDS Integers, Sequences, FiniteSets, TLC

(***************************************************************************)
(* Bounds of the model.                                                    *)
(***************************************************************************)
\* number of facade invocations started in one behaviour
MaxFacadeCalls == 1
\* number of VITE_GEMINI_API_KEY* variables the environment may define
MaxEnvKeys == 3
\* facade invocations that can be in flight together
MaxConcurrentCalls == 2
\* user events (ratings, Load More, extensions) the shell handles
MaxShellEvents == 4

(***************************************************************************)
(* String primitives of the JavaScript runtime.                            *)
(***************************************************************************)
Q == "\""

WS == {" ", "\n"}

\* String.prototype.includes: needle occurs as a contiguous substring
includes(hay, needle) ==
  \E i \in 1..(Len(hay) - Len(needle) + 1) :
    SubSeq(hay, i, i + Len(needle) - 1) = needle

RECURSIVE trimStart(_)
trimStart(s) ==
  IF s # <<>> /\ Head(s) \in WS THEN trimStart(Tail(s)) ELSE s

RECURSIVE trimEnd(_)
trimEnd(s) ==
  IF s # <<>> /\ s[Len(s)] \in WS THEN trimEnd(SubSeq(s, 1, Len(s) - 1)) ELSE s

\* String.prototype.trim
trim(s) == trimEnd(trimStart(s))

\* String.prototype.startsWith
startsWith(s, prefix) ==
  Len(s) >= Len(prefix) /\ SubSeq(s, 1, Len(prefix)) = prefix

\* String.prototype.endsWith
endsWith(s, suffix) ==
  Len(s) >= Len(suffix) /\ SubSeq(s, Len(s) - Len(suffix) + 1, Len(s)) = suffix

(***************************************************************************)
(* JavaScript values.  Every value is a record [t, v]; t is the type tag.  *)
(* An object is the sequence of its members [k, v] in insertion order.     *)
(***************************************************************************)
Undefined == [t |-> "undefined", v |-> <<>>]

JNull == [t |-> "null", v |-> <<>>]

JStr(cs) == [t |-> "string", v |-> cs]

JNum(n) == [t |-> "number", v |-> n]

JArr(items) == [t |-> "array", v |-> items]

JObj(members) == [t |-> "object", v |-> members]

\* obj[key] = val on an object's member list: an existing key keeps its place
PutMember(members, key, val) ==
  IF \E i \in 1..Len(members) : members[i].k = key
    THEN [i \in 1..Len(members) |->
            IF members[i].k = key THEN [k |-> key, v |-> val] ELSE members[i]]
    ELSE Append(members, [k |-> key, v |-> val])

\* value.key : undefined for a missing member and for every non-object
\* (arrays, strings and numbers have no such own property)
GetProp(val, key) ==
  IF val.t = "object" /\ \E i \in 1..Len(val.v) : val.v[i].k = key
    THEN val.v[CHOOSE i \in 1..Len(val.v) : val.v[i].k = key].v
    ELSE Undefined

\* ToBoolean
Truthy(val) ==
  CASE val.t = "undefined" -> FALSE
    [] val.t = "null" -> FALSE
    [] val.t = "string" -> val.v # <<>>
    [] val.t = "number" -> val.v # 0
    [] OTHER -> TRUE

\* Array.isArray
isArray(val) == val.t = "array"

(***************************************************************************)
(* JSON.parse, by recursive descent over the characters of the text.       *)
(* Grammar: objects, arrays, strings without escapes, unsigned integers,   *)
(* null; whitespace between tokens.  A parse step yields                   *)
(* [ok, val, pos]: pos is the index after the parsed value.                *)
(***************************************************************************)
Digits == <<"0", "1", "2", "3", "4", "5", "6", "7", "8", "9">>

IsDigit(ch) == \E d \in 1..10 : Digits[d] = ch

DigitVal(ch) == (CHOOSE d \in 1..10 : Digits[d] = ch) - 1

ParseFail == [ok |-> FALSE, val |-> Undefined, pos |-> 0]

ParseOk(val, pos) == [ok |-> TRUE, val |-> val, pos |-> pos]

RECURSIVE SkipWs(_, _)
SkipWs(s, i) ==
  IF i <= Len(s) /\ s[i] \in WS THEN SkipWs(s, i + 1) ELSE i

\* s[i] is the opening quote; a raw line break inside a string is an error
RECURSIVE ScanString(_, _)
ScanString(s, j) ==
  IF j > Len(s) THEN 0
  ELSE IF s[j] = Q THEN j
  ELSE IF s[j] = "\n" THEN 0
  ELSE ScanString(s, j + 1)

ParseString(s, i) ==
  LET j == ScanString(s, i + 1)
  IN IF j = 0 THEN ParseFail ELSE ParseOk(JStr(SubSeq(s, i + 1, j - 1)), j + 1)

RECURSIVE ScanDigits(_, _)
ScanDigits(s, j) ==
  IF j <= Len(s) /\ IsDigit(s[j]) THEN ScanDigits(s, j + 1) ELSE j

RECURSIVE DigitsVal(_)
DigitsVal(ds) ==
  IF ds = <<>> THEN 0
  ELSE 10 * DigitsVal(SubSeq(ds, 1, Len(ds) - 1)) + DigitVal(ds[Len(ds)])

\* s[i] is a digit; a leading zero ends the number
ParseNumber(s, i) ==
  LET j == IF s[i] = "0" THEN i + 1 ELSE ScanDigits(s, i)
  IN ParseOk(JNum(DigitsVal(SubSeq(s, i, j - 1))), j)

ParseLiteralNull(s, i) ==
  IF i + 3 <= Len(s) /\ SubSeq(s, i, i + 3) = <<"n", "u", "l", "l">>
    THEN ParseOk(JNull, i + 4)
    ELSE ParseFail

RECURSIVE ParseValue(_, _)
RECURSIVE ParseMembers(_, _, _)
RECURSIVE ParseElements(_, _, _)

\* i is at the first character of a value
ParseValue(s, i) ==
  IF i > Len(s) THEN ParseFail
  ELSE IF s[i] = "{" THEN
    LET j == SkipWs(s, i + 1)
    IN IF j <= Len(s) /\ s[j] = "}" THEN ParseOk(JObj(<<>>), j + 1)
       ELSE ParseMembers(s, j, <<>>)
  ELSE IF s[i] = "[" THEN
    LET j == SkipWs(s, i + 1)
    IN IF j <= Len(s) /\ s[j] = "]" THEN ParseOk(JArr(<<>>), j + 1)
       ELSE ParseElements(s, j, <<>>)
  ELSE IF s[i] = Q THEN ParseString(s, i)
  ELSE IF IsDigit(s[i]) THEN ParseNumber(s, i)
  ELSE IF s[i] = "n" THEN ParseLiteralNull(s, i)
  ELSE ParseFail

\* j is at the first character of a member; acc holds the members so far
ParseMembers(s, j, acc) ==
  IF j > Len(s) \/ s[j] # Q THEN ParseFail
  ELSE
    LET key == ParseString(s, j)
    IN IF ~key.ok THEN ParseFail
       ELSE
         LET c == SkipWs(s, key.pos)
         IN IF c > Len(s) \/ s[c] # ":" THEN ParseFail
            ELSE
              LET val == ParseValue(s, SkipWs(s, c + 1))
              IN IF ~val.ok THEN ParseFail
                 ELSE
                   LET e == SkipWs(s, val.pos)
                       members == PutMember(acc, key.val.v, val.val)
                   IN IF e > Len(s) THEN ParseFail
                      ELSE IF s[e] = "," THEN ParseMembers(s, SkipWs(s, e + 1), members)
                      ELSE IF s[e] = "}" THEN ParseOk(JObj(members), e + 1)
                      ELSE ParseFail

\* j is at the first character of an element; acc holds the elements so far
ParseElements(s, j, acc) ==
  LET val == ParseValue(s, j)
  IN IF ~val.ok THEN ParseFail
     ELSE
       LET e == SkipWs(s, val.pos)
           items == Append(acc, val.val)
       IN IF e > Len(s) THEN ParseFail
          ELSE IF s[e] = "," THEN ParseElements(s, SkipWs(s, e + 1), items)
          ELSE IF s[e] = "]" THEN ParseOk(JArr(items), e + 1)
          ELSE ParseFail

\* JSON.parse(text): [ok, val]; ok = FALSE stands for the SyntaxError
JSONparse(text) ==
  LET r == ParseValue(text, SkipWs(text, 1))
  IN IF r.ok /\ SkipWs(text, r.pos) = Len(text) + 1
       THEN [ok |-> TRUE, val |-> r.val]
       ELSE [ok |-> FALSE, val |-> Undefined]

(***************************************************************************)
(* Property names and string literals of the source, as character          *)
(* sequences.                                                              *)
(***************************************************************************)
kTitle ==
  <<"t", "i", "t", "l", "e">>

kSummary ==
  <<"s", "u", "m", "m", "a", "r", "y">>

kFlashcards ==
  <<"f", "l", "a", "s", "h", "c", "a", "r", "d", "s">>

kQuiz ==
  <<"q", "u", "i", "z">>

kQuestion ==
  <<"q", "u", "e", "s", "t", "i", "o", "n">>

kAnswer ==
  <<"a", "n", "s", "w", "e", "r">>

kOptions ==
  <<"o", "p", "t", "i", "o", "n", "s">>

kCorrectAnswer ==
  <<"c", "o", "r", "r", "e", "c", "t", "A", "n", "s", "w", "e", "r">>

kExplanation ==
  <<"e", "x", "p", "l", "a", "n", "a", "t", "i", "o", "n">>

sOverloaded ==
  <<"o", "v", "e", "r", "l", "o", "a", "d", "e", "d">>

sUNAVAILABLE ==
  <<"U", "N", "A", "V", "A", "I", "L", "A", "B", "L", "E">>

sFetchFailed ==
  <<"f", "e", "t", "c", "h", " ", "f", "a", "i", "l", "e", "d">>

sInvalidResponseStructure ==
  <<"I", "n", "v", "a", "l", "i", "d", " ", "r", "e", "s", "p", "o", "n",
    "s", "e", " ", "s", "t", "r", "u", "c", "t", "u", "r", "e">>

(***************************************************************************)
(* Fallback data returned when the API fails.                              *)
(***************************************************************************)
Member(key, val) == [k |-> key, v |-> val]

sFbTitle ==
  <<"S", "t", "u", "d", "y", " ", "M", "a", "t", "e", "r", "i", "a", "l">>

sFbSummary ==
  <<"U", "n", "a", "b", "l", "e", " ", "t", "o", " ", "g", "e", "n", "e",
    "r", "a", "t", "e", " ", "A", "I", " ", "c", "o", "n", "t", "e", "n",
    "t", ".", " ", "P", "l", "e", "a", "s", "e", " ", "t", "r", "y", " ",
    "a", "g", "a", "i", "n", " ", "o", "r", " ", "a", "d", "j", "u", "s",
    "t", " ", "y", "o", "u", "r", " ", "i", "n", "p", "u", "t", ".">>

sFbCardQuestion ==
  <<"W", "h", "a", "t", " ", "k", "e", "y", " ", "c", "o", "n", "c", "e",
    "p", "t", "s", " ", "d", "i", "d", " ", "y", "o", "u", " ", "l", "e",
    "a", "r", "n", "?">>

sFbCardAnswer ==
  <<"R", "e", "v", "i", "e", "w", " ", "y", "o", "u", "r", " ", "n", "o",
    "t", "e", "s", " ", "f", "o", "r", " ", "i", "m", "p", "o", "r", "t",
    "a", "n", "t", " ", "t", "o", "p", "i", "c", "s", ".">>

sFbQuizQuestion ==
  <<"W", "h", "i", "c", "h", " ", "a", "r", "e", "a", " ", "d", "o", " ",
    "y", "o", "u", " ", "n", "e", "e", "d", " ", "t", "o", " ", "s", "t",
    "u", "d", "y", " ", "m", "o", "r", "e", "?">>

sPathophysiology ==
  <<"P", "a", "t", "h", "o", "p", "h", "y", "s", "i", "o", "l", "o", "g",
    "y">>

sPharmacology ==
  <<"P", "h", "a", "r", "m", "a", "c", "o", "l", "o", "g", "y">>

sDiagnosis ==
  <<"D", "i", "a", "g", "n", "o", "s", "i", "s">>

sManagement ==
  <<"M", "a", "n", "a", "g", "e", "m", "e", "n", "t">>

sFbQuizExplanation ==
  <<"F", "o", "c", "u", "s", " ", "o", "n", " ", "w", "e", "a", "k", " ",
    "a", "r", "e", "a", "s", " ", "f", "i", "r", "s", "t", ".">>

sFbReviewQuestion ==
  <<"R", "e", "v", "i", "e", "w", " ", "m", "o", "d", "e", ":", " ", "W",
    "h", "a", "t", "'", "s", " ", "t", "h", "e", " ", "m", "a", "i", "n",
    " ", "t", "o", "p", "i", "c", " ", "y", "o", "u", "'", "r", "e", " ",
    "s", "t", "u", "d", "y", "i", "n", "g", "?">>

sCardiology ==
  <<"C", "a", "r", "d", "i", "o", "l", "o", "g", "y">>

sPulmonology ==
  <<"P", "u", "l", "m", "o", "n", "o", "l", "o", "g", "y">>

sGastroenterology ==
  <<"G", "a", "s", "t", "r", "o", "e", "n", "t", "e", "r", "o", "l", "o",
    "g", "y">>

sNephrology ==
  <<"N", "e", "p", "h", "r", "o", "l", "o", "g", "y">>

sFbReviewExplanation ==
  <<"C", "h", "o", "o", "s", "e", " ", "y", "o", "u", "r", " ", "f", "o",
    "c", "u", "s", " ", "a", "r", "e", "a", " ", "t", "o", " ", "g", "e",
    "n", "e", "r", "a", "t", "e", " ", "n", "e", "w", " ", "q", "u", "e",
    "s", "t", "i", "o", "n", "s", ".">>

FALLBACK_STUDY_MATERIAL ==
  JObj(<<
    Member(kTitle, JStr(sFbTitle)),
    Member(kSummary, JStr(sFbSummary)),
    Member(kFlashcards, JArr(<<
      JObj(<<Member(kQuestion, JStr(sFbCardQuestion)),
             Member(kAnswer, JStr(sFbCardAnswer))>>)>>)),
    Member(kQuiz, JArr(<<
      JObj(<<Member(kQuestion, JStr(sFbQuizQuestion)),
             Member(kOptions, JArr(<<JStr(sPathophysiology), JStr(sPharmacology),
                                     JStr(sDiagnosis), JStr(sManagement)>>)),
             Member(kCorrectAnswer, JNum(0)),
             Member(kExplanation, JStr(sFbQuizExplanation))>>)>>))
  >>)

FALLBACK_QUIZ ==
  JArr(<<
    JObj(<<Member(kQuestion, JStr(sFbReviewQuestion)),
           Member(kOptions, JArr(<<JStr(sCardiology), JStr(sPulmonology),
                                   JStr(sGastroenterology), JStr(sNephrology)>>)),
           Member(kCorrectAnswer, JNum(0)),
           Member(kExplanation, JStr(sFbReviewExplanation))>>)>>)

\* the value generateAdditionalFlashcards returns from its catch block
FALLBACK_FLASHCARDS == JArr(<<>>)

(***************************************************************************)
(* Thrown values.  An error object carries name, status and message;       *)
(* status and message are JavaScript values (Undefined when absent).       *)
(***************************************************************************)
Err(name, status, message) ==
  [t |-> "error", v |-> [name |-> name, status |-> status, message |-> message]]

\* error?.status
StatusOf(error) == IF error.t = "error" THEN error.v.status ELSE Undefined

\* error?.message
MessageOf(error) == IF error.t = "error" THEN error.v.message ELSE Undefined

\* error?.message?.includes(needle)
MessageIncludes(error, needle) ==
  MessageOf(error).t = "string" /\ includes(MessageOf(error).v, needle)

\* isRetryable, had it also retried on status 500
isRetryable_with500(error) ==
  \/ StatusOf(error) = JNum(503)
  \/ StatusOf(error) = JNum(429)
  \/ StatusOf(error) = JNum(500)
  \/ MessageIncludes(error, sOverloaded)
  \/ MessageIncludes(error, sUNAVAILABLE)
  \/ MessageIncludes(error, sFetchFailed)

\* retryWithBackoff: the retryable-error test of the catch block
isRetryable(error) ==
  \/ StatusOf(error) = JNum(503)
  \/ StatusOf(error) = JNum(429)
  \/ MessageIncludes(error, sOverloaded)
  \/ MessageIncludes(error, sUNAVAILABLE)
  \/ MessageIncludes(error, sFetchFailed)

\* The SyntaxError of JSON.parse.  Its message is implementation-defined:
\* some engines quote the offending text, others do not.
SyntaxError(text, echo) ==
  Err("SyntaxError", Undefined,
      JStr(IF echo
             THEN <<"U", "n", "e", "x", "p", "e", "c", "t", "e", "d", " ">> \o text
             ELSE <<"U", "n", "e", "x", "p", "e", "c", "t", "e", "d">>))

\* property access on null
NullTypeError ==
  Err("TypeError", Undefined, JStr(<<"n", "u", "l", "l">>))

Return(val) == [kind |-> "return", val |-> val]

Throw(error) == [kind |-> "throw", val |-> error]

(***************************************************************************)
(* The part of each task's callback that runs after generateContent        *)
(* resolves.  respText is response.text (a string value or Undefined);     *)
(* echo selects the engine's SyntaxError message.                          *)
(***************************************************************************)
\* hasRequiredFields, had it also asked for non-empty lists
hasRequiredFields_nonEmptyLists(result) ==
  /\ Truthy(GetProp(result, kTitle))
  /\ Truthy(GetProp(result, kSummary))
  /\ GetProp(result, kFlashcards).v # <<>>
  /\ GetProp(result, kQuiz).v # <<>>

\* line 338: result.title && result.summary
hasRequiredFields(result) ==
  Truthy(GetProp(result, kTitle)) /\ Truthy(GetProp(result, kSummary))

\* parseStudyMaterial, had it no repair step: the first error is rethrown
parseStudyMaterial_noRepair(respText, echo) ==
  LET text == IF Truthy(respText) THEN respText.v ELSE <<"{", "}">>
      strict == JSONparse(text)
  IN IF ~strict.ok THEN Throw(SyntaxError(text, echo))
     ELSE IF strict.val.t = "null" THEN Throw(NullTypeError)
     ELSE IF ~hasRequiredFields(strict.val)
       THEN Throw(Err("Error", Undefined, JStr(sInvalidResponseStructure)))
     ELSE Return(strict.val)

\* parseStudyMaterial, had it gone on to a second repair that also closes an
\* open string
parseStudyMaterial_repairTwice(respText, echo) ==
  LET text == IF Truthy(respText) THEN respText.v ELSE <<"{", "}">>
      first == parseStudyMaterial_noRepair(respText, echo)
      repaired == JSONparse(trim(text) \o <<"}">>)
      again == JSONparse(trim(text) \o <<Q, "}">>)
  IN IF first.kind = "return" THEN first
     ELSE IF startsWith(trim(text), <<"{">>) /\ ~endsWith(trim(text), <<"}">>)
       THEN IF repaired.ok THEN Return(repaired.val)
            ELSE IF again.ok THEN Return(again.val)
            ELSE Throw(SyntaxError(trim(text) \o <<"}">>, echo))
     ELSE first

\* processStudyContent, lines 335-346
parseStudyMaterial(respText, echo) ==
  LET text == IF Truthy(respText) THEN respText.v ELSE <<"{", "}">>
      strict == JSONparse(text)
      tried ==
        IF ~strict.ok THEN Throw(SyntaxError(text, echo))
        ELSE IF strict.val.t = "null" THEN Throw(NullTypeError)
        ELSE IF ~hasRequiredFields(strict.val)
          THEN Throw(Err("Error", Undefined, JStr(sInvalidResponseStructure)))
        ELSE Return(strict.val)
      repaired == JSONparse(trim(text) \o <<"}">>)
  IN IF tried.kind = "return" THEN tried
     ELSE IF startsWith(trim(text), <<"{">>) /\ ~endsWith(trim(text), <<"}">>)
       THEN IF repaired.ok THEN Return(repaired.val)
            ELSE Throw(SyntaxError(trim(text) \o <<"}">>, echo))
     ELSE tried

\* parseQuestionList, had it no repair of a truncated list
parseQuestionList_noRepair(respText, echo) ==
  LET text == IF Truthy(respText) THEN respText.v ELSE <<"[", "]">>
      strict == JSONparse(text)
  IN IF strict.ok THEN Return(strict.val)
     ELSE Throw(SyntaxError(text, echo))

\* extendQuiz, lines 399-407; generateQuestionForFailure, lines 456-464
parseQuestionList(respText, echo) ==
  LET text == IF Truthy(respText) THEN respText.v ELSE <<"[", "]">>
      strict == JSONparse(text)
      repaired == JSONparse(trim(text) \o <<"]">>)
  IN IF strict.ok THEN Return(strict.val)
     ELSE IF startsWith(trim(text), <<"[">>) /\ ~endsWith(trim(text), <<"]">>)
       THEN IF repaired.ok THEN Return(repaired.val)
            ELSE Throw(SyntaxError(trim(text) \o <<"]">>, echo))
     ELSE Throw(SyntaxError(text, echo))

\* generateAdditionalFlashcards, lines 493-503
parseFlashcardList(respText, echo) ==
  LET text == IF Truthy(respText) THEN respText.v ELSE <<"[", "]">>
      strict == JSONparse(text)
      repaired == JSONparse(trim(text) \o <<"]">>)
  IN IF strict.ok THEN Return(IF isArray(strict.val) THEN strict.val ELSE JArr(<<>>))
     ELSE IF startsWith(trim(text), <<"[">>) /\ ~endsWith(trim(text), <<"]">>)
       THEN IF repaired.ok
              THEN Return(IF isArray(repaired.val) THEN repaired.val ELSE JArr(<<>>))
              ELSE Throw(SyntaxError(trim(text) \o <<"]">>, echo))
     ELSE Throw(SyntaxError(text, echo))

Tasks ==
  {"processStudyContent", "extendQuiz", "generateQuestionForFailure",
   "generateAdditionalFlashcards"}

\* the callback's continuation for each task
parseResponse(task, respText, echo) ==
  CASE task = "processStudyContent" -> parseStudyMaterial(respText, echo)
    [] task = "extendQuiz" -> parseQuestionList(respText, echo)
    [] task = "generateQuestionForFailure" -> parseQuestionList(respText, echo)
    [] task = "generateAdditionalFlashcards" -> parseFlashcardList(respText, echo)

\* fallbackOf, had generateQuestionForFailure returned no question at all
fallbackOf_emptyRemediation(task) ==
  CASE task = "processStudyContent" -> FALLBACK_STUDY_MATERIAL
    [] task = "extendQuiz" -> FALLBACK_QUIZ
    [] task = "generateQuestionForFailure" -> JArr(<<>>)
    [] task = "generateAdditionalFlashcards" -> FALLBACK_FLASHCARDS

\* fallbackOf, had every task returned the quiz fallback
fallbackOf_quizEverywhere(task) ==
  IF task = "generateAdditionalFlashcards" THEN FALLBACK_FLASHCARDS ELSE FALLBACK_QUIZ

\* the value each task returns from its catch block
fallbackOf(task) ==
  CASE task = "processStudyContent" -> FALLBACK_STUDY_MATERIAL
    [] task = "extendQuiz" -> FALLBACK_QUIZ
    [] task = "generateQuestionForFailure" -> FALLBACK_QUIZ
    [] task = "generateAdditionalFlashcards" -> FALLBACK_FLASHCARDS

(***************************************************************************)
(* The request each task passes to generateContent.  A system instruction  *)
(* is a string value holding the text as one piece, here its opening       *)
(* sentence.                                                               *)
(***************************************************************************)
\* StudyDomain
Domains == {"PA", "Nursing", "Medical", "GenEd"}

Instruction(text) == JStr(<<text>>)

DOMAIN_INSTRUCTIONS ==
  [d \in Domains |->
     CASE d = "PA" -> Instruction("You are a Senior PA School Professor.")
       [] d = "Nursing" -> Instruction("You are a Nursing Education Expert.")
       [] d = "Medical" -> Instruction("You are a Medical School Professor.")
       [] d = "GenEd" -> Instruction("You are an expert educator.")]

DEFAULT_SYSTEM_INSTRUCTION == DOMAIN_INSTRUCTIONS["PA"]

\* the argument a caller omits
Omitted == "(omitted)"

\* the domain arguments of the model: the four domains, none, and a value
\* that is no StudyDomain (a saved upload written by another version)
DomainArgs == Domains \cup {Omitted, "Dental"}

\* domain: StudyDomain = 'PA'; generateAdditionalFlashcards has no such
\* parameter
domainParameter(task, arg) ==
  IF task = "generateAdditionalFlashcards" THEN "none"
  ELSE IF arg = Omitted THEN "PA"
  ELSE arg

\* DOMAIN_INSTRUCTIONS[domain]: undefined for a key the table does not have
lookupInstruction(domain) ==
  IF domain \in DOMAIN DOMAIN_INSTRUCTIONS
    THEN DOMAIN_INSTRUCTIONS[domain]
    ELSE Undefined

modelName == "gemini-2.0-flash"

\* config.maxOutputTokens of each task
maxOutputTokens(task) ==
  CASE task = "processStudyContent" -> 8000
    [] task = "extendQuiz" -> 4000
    [] task = "generateQuestionForFailure" -> 2000
    [] task = "generateAdditionalFlashcards" -> 4000

NoRequest ==
  [model |-> "none", systemInstruction |-> Undefined, maxOutputTokens |-> 0]

\* the model, the system instruction and the size ceiling of the request a
\* task builds; generateAdditionalFlashcards takes no domain
buildRequest(task, arg) ==
  [model |-> modelName,
   systemInstruction |->
     IF task = "generateAdditionalFlashcards"
       THEN DEFAULT_SYSTEM_INSTRUCTION
       ELSE lookupInstruction(domainParameter(task, arg)),
   maxOutputTokens |-> maxOutputTokens(task)]

(***************************************************************************)
(* ApiKeyManager.  The environment (import.meta.env) is a sequence of      *)
(* [name, value] entries in Object.keys order; names are character         *)
(* sequences, values are strings.                                          *)
(***************************************************************************)
sKeyPrefix ==
  <<"V", "I", "T", "E", "_", "G", "E", "M", "I", "N", "I", "_", "A", "P", "I",
    "_", "K", "E", "Y">>

sModeName == <<"M", "O", "D", "E">>

PLACEHOLDER_API_KEY == "PLACEHOLDER_API_KEY"

\* VITE_GEMINI_API_KEY, VITE_GEMINI_API_KEY_1, VITE_GEMINI_API_KEY_2, ...
KeyVarName(i) == IF i = 0 THEN sKeyPrefix ELSE sKeyPrefix \o <<"_", Digits[i + 1]>>

Credentials == <<"key-A", "key-B", "key-C", "key-D", "key-E">>

\* the environment defining n key variables with real credentials
EnvOf(n) ==
  <<[name |-> sModeName, value |-> "production"]>> \o
  [i \in 1..n |-> [name |-> KeyVarName(i - 1), value |-> Credentials[i]]]

\* the environments of the model: every key variable set, or the primary
\* variable VITE_GEMINI_API_KEY left empty or left at the placeholder
Envs ==
  UNION {
    {EnvOf(n)} \cup
    {[EnvOf(n) EXCEPT ![2].value = bad] :
       bad \in IF n = 0 THEN {} ELSE {"", PLACEHOLDER_API_KEY}} :
    n \in 0..MaxEnvKeys}

\* import.meta.env[name]; the empty string stands for an undefined variable
\* (both are falsy, and the code only tests truthiness)
EnvGet(e, name) ==
  IF \E i \in 1..Len(e) : e[i].name = name
    THEN e[CHOOSE i \in 1..Len(e) : e[i].name = name].value
    ELSE ""

HasKeyPrefix(entry) == startsWith(entry.name, sKeyPrefix)

IsUsableKey(val) == val # "" /\ val # PLACEHOLDER_API_KEY

\* ApiKeyManager.constructor: the value of this.keys
constructor(e) ==
  LET named == SelectSeq(e, HasKeyPrefix)
      vals == [i \in 1..Len(named) |-> named[i].value]
      filtered == SelectSeq(vals, IsUsableKey)
  IN IF Len(filtered) = 0 /\ EnvGet(e, sKeyPrefix) # ""
       THEN Append(filtered, EnvGet(e, sKeyPrefix))
       ELSE filtered

\* getNextKey, had the cursor not wrapped: past the end keys[i] is undefined
getNextKey_noWrap(ks, index) ==
  IF Len(ks) = 0 THEN [key |-> "", index |-> index]
  ELSE [key |-> IF index < Len(ks) THEN ks[index + 1] ELSE "undefined",
        index |-> index + 1]

\* getNextKey, had it no test for the empty pool: keys[0] is undefined there
getNextKey_noEmptyCheck(ks, index) ==
  IF Len(ks) = 0 THEN [key |-> "undefined", index |-> index]
  ELSE [key |-> ks[index + 1], index |-> (index + 1) % Len(ks)]

\* getNextKey, had it forgotten to advance the cursor
getNextKey_noAdvance(ks, index) ==
  IF Len(ks) = 0 THEN [key |-> "", index |-> index]
  ELSE [key |-> ks[index + 1], index |-> index]

\* ApiKeyManager.getNextKey: [key, index] = returned key and new currentIndex
getNextKey(ks, index) ==
  IF Len(ks) = 0 THEN [key |-> "", index |-> index]
  ELSE [key |-> ks[index + 1], index |-> (index + 1) % Len(ks)]

(***************************************************************************)
(* retryWithBackoff parameters (all four tasks use the defaults).          *)
(***************************************************************************)
maxRetries == 5

initialDelayMs == 2000

\* Math.random() * 1000 lies in [0, JitterRangeMs)
JitterRangeMs == 1000

\* sampled jitter values, in milliseconds
Jitters == {0, JitterRangeMs \div 2, JitterRangeMs - 1}

RECURSIVE pow2(_)
pow2(n) == IF n = 0 THEN 1 ELSE 2 * pow2(n - 1)

\* backoffDelay, had the base delay been one second
backoffDelay_base1000(attempt, jitter) == 1000 * pow2(attempt) + jitter

\* backoffDelay, had the delay grown linearly
backoffDelay_linear(attempt, jitter) == initialDelayMs * (attempt + 1) + jitter

\* baseDelay + jitter
backoffDelay(attempt, jitter) == initialDelayMs * pow2(attempt) + jitter

(***************************************************************************)
(* Outcomes of the remote generateContent call.                            *)
(***************************************************************************)
Str(cs) == <<Q>> \o cs \o <<Q>>

Pair(key, valueText) == Str(key) \o <<":">> \o valueText

Prefixes(s) == {SubSeq(s, 1, n) : n \in 0..Len(s)}

\* {"title":"T","summary":"S"}
tWellFormed ==
  <<"{">> \o Pair(kTitle, Str(<<"T">>)) \o <<",">> \o Pair(kSummary, Str(<<"S">>))
    \o <<"}">>

\* {"title":"T","summary":"S","flashcards":[],"quiz":[]}
tMinimal ==
  <<"{">> \o Pair(kTitle, Str(<<"T">>)) \o <<",">> \o Pair(kSummary, Str(<<"S">>))
    \o <<",">> \o Pair(kFlashcards, <<"[", "]">>)
    \o <<",">> \o Pair(kQuiz, <<"[", "]">>) \o <<"}">>

\* [{"q":"A"},{"q":"B"}]
tList2 ==
  <<"[", "{">> \o Pair(<<"q">>, Str(<<"A">>)) \o <<"}", ",", "{">>
    \o Pair(<<"q">>, Str(<<"B">>)) \o <<"}", "]">>

\* {"title":"T","summary":"S","m":{}}
tNested ==
  <<"{">> \o Pair(kTitle, Str(<<"T">>)) \o <<",">> \o Pair(kSummary, Str(<<"S">>))
    \o <<",">> \o Pair(<<"m">>, <<"{", "}">>) \o <<"}">>

tOddities ==
  { \* {"title":"","summary":"S"}
    <<"{">> \o Pair(kTitle, Str(<<>>)) \o <<",">> \o Pair(kSummary, Str(<<"S">>))
      \o <<"}">>,
    \* {"summary":"S"}
    <<"{">> \o Pair(kSummary, Str(<<"S">>)) \o <<"}">>,
    \* {"title":"T","summary":0}
    <<"{">> \o Pair(kTitle, Str(<<"T">>)) \o <<",">> \o Pair(kSummary, <<"0">>)
      \o <<"}">>,
    \* {"title":"}      (unterminated string that ends in a brace)
    <<"{">> \o Pair(kTitle, <<Q, "}">>),
    \* whitespace around a text that lacks its closing brace
    <<" ">> \o SubSeq(tWellFormed, 1, Len(tWellFormed) - 1) \o <<"\n">>,
    \* whitespace around a list that lacks its closing bracket
    <<" ">> \o SubSeq(tList2, 1, Len(tList2) - 1) \o <<"\n">>,
    <<"{", "}">>,
    <<"n", "u", "l", "l">>,
    <<"1">>,
    Str(<<"T">>),
    \* plain prose instead of JSON
    sOverloaded }

\* a text cut short by 0..n characters
Truncations(s, n) == {SubSeq(s, 1, Len(s) - d) : d \in 0..n}

Texts ==
  Prefixes(tWellFormed) \cup Truncations(tMinimal, 3) \cup Prefixes(tList2)
    \cup Truncations(tNested, 1) \cup tOddities

\* response.text: a string, or undefined
ResponseTexts == {JStr(text) : text \in Texts} \cup {Undefined}

\* errors generateContent may reject with
RemoteErrors ==
  { Err("ApiError", JNum(503), JStr(<<"b", "u", "s", "y">>)),
    Err("ApiError", JNum(429), JStr(<<"q", "u", "o", "t", "a">>)),
    Err("ApiError", JNum(500), JStr(<<"i", "n", "t", "e", "r", "n", "a", "l">>)),
    Err("ApiError", Undefined, JStr(<<"i", "s", " ">> \o sOverloaded \o <<"!">>)),
    Err("ApiError", Undefined, JStr(<<"O", "v", "e", "r", "l", "o", "a", "d", "e", "d">>)),
    Err("ApiError", Undefined, JStr(<<"5", "0", "3", " ">> \o sUNAVAILABLE)),
    Err("ApiError", Undefined,
        JStr(<<"u", "n", "a", "v", "a", "i", "l", "a", "b", "l", "e">>)),
    Err("TypeError", Undefined, JStr(sFetchFailed)),
    Err("Error", Undefined, Undefined) }

(***************************************************************************)
(* State.                                                                  *)
(***************************************************************************)
VARIABLES
  env,            \* import.meta.env
  keys,           \* ApiKeyManager.keys
  currentIndex,   \* ApiKeyManager.currentIndex
  handedOut,      \* history: the keys returned by getNextKey, in call order
  started,        \* history: number of facade invocations so far
  calls,          \* the facade invocation running in each slot
  shell           \* the application shell: material and pending handlers

vars == <<env, keys, currentIndex, handedOut, started, calls, shell>>

\* the slots facade invocations run in; in Spec they run one after the other
Calls == DOMAIN calls

\* History fields of a call: received is what generateContent last settled
\* with, fnOutcome what fn(apiKey) then returned or threw, thrown what
\* retryWithBackoff threw to the facade.
NoResponse == [kind |-> "none", val |-> Undefined]

NoOutcome == [kind |-> "none", val |-> Undefined]

\* A slot before its first invocation; the counters fnCalls, keyRequests and
\* sleeps are history as well.
IdleCall ==
  [pc |-> "idle", task |-> "none", domain |-> "none", request |-> NoRequest,
   attempt |-> 0, apiKey |-> "",
   lastError |-> Undefined, delayMs |-> 0,
   fnCalls |-> 0, keyRequests |-> 0, sleeps |-> 0,
   received |-> NoResponse, fnOutcome |-> NoOutcome, thrown |-> Undefined,
   completion |-> "pending", value |-> Undefined]

\* A facade function has been called with domain argument arg and has
\* reached retryWithBackoff.
NewCall(task, arg) ==
  [IdleCall EXCEPT !.pc = "loop", !.task = task,
                   !.domain = domainParameter(task, arg),
                   !.request = buildRequest(task, arg)]

\* retryWithBackoff has returned or thrown: its locals are gone
dropLocals(call) ==
  [call EXCEPT !.apiKey = "", !.lastError = Undefined, !.delayMs = 0,
               !.domain = "none", !.request = NoRequest]

\* facadeCatch, had the facade logged and rethrown
facadeCatch_rethrow(call, error) ==
  [dropLocals(call) EXCEPT !.pc = "done", !.thrown = error,
                           !.completion = "raised", !.value = error]

\* the catch block of a facade function: log and return the fallback
facadeCatch(call, error) ==
  [dropLocals(call) EXCEPT !.pc = "done", !.thrown = error,
                           !.completion = "returned",
                           !.value = fallbackOf(call.task)]

\* shouldThrow, had it retried every error
shouldThrow_lastOnly(error, attempt) == attempt = maxRetries - 1

\* shouldThrow, had the last attempt been tested off by one
shouldThrow_offByOne(error, attempt) == ~isRetryable(error) \/ attempt = maxRetries

\* retryWithBackoff, catch block: rethrow, or wait before the next attempt
shouldThrow(error, attempt) == ~isRetryable(error) \/ attempt = maxRetries - 1

\* enterLoop, had it refused to call fn without a credential
enterLoop_failFast(call, got) ==
  IF call.attempt < maxRetries /\ got.key # ""
    THEN [call EXCEPT !.pc = "inflight", !.apiKey = got.key, !.delayMs = 0,
                      !.keyRequests = @ + 1, !.fnCalls = @ + 1]
    ELSE facadeCatch(call, call.lastError)

\* enterLoop, had the credential been taken once, before the loop
enterLoop_keyBeforeLoop(call, got) ==
  IF call.attempt < maxRetries
    THEN [call EXCEPT !.pc = "inflight",
                      !.apiKey = IF call.attempt = 0 THEN got.key ELSE @,
                      !.delayMs = 0,
                      !.keyRequests = IF call.attempt = 0 THEN 1 ELSE @,
                      !.fnCalls = @ + 1]
    ELSE facadeCatch(call, call.lastError)

\* lines 250-253: one pass of the loop head up to the await of fn(apiKey);
\* got is the result of getNextKey.  Line 280 when the loop has run out.
enterLoop(call, got) ==
  IF call.attempt < maxRetries
    THEN [call EXCEPT !.pc = "inflight", !.apiKey = got.key, !.delayMs = 0,
                      !.keyRequests = @ + 1, !.fnCalls = @ + 1]
    ELSE facadeCatch(call, call.lastError)

\* onSuccess, had line 253 awaited fn without returning its value: the loop
\* goes on to the next attempt
onSuccess_noReturn(call, outcome) ==
  [call EXCEPT !.pc = "sleeping", !.fnOutcome = outcome]

\* line 253: return await fn(apiKey), and the facade returns that value
onSuccess(call, outcome) ==
  [dropLocals(call) EXCEPT !.pc = "done", !.fnOutcome = outcome,
                           !.completion = "returned", !.value = outcome.val]

\* settle, had the delay not been awaited: the next attempt starts at once
settle_noAwaitDelay(call0, response, outcome, jitter) ==
  LET call == [call0 EXCEPT !.received = response]
  IN
  IF outcome.kind = "return"
    THEN onSuccess(call, outcome)
    ELSE IF shouldThrow(outcome.val, call.attempt)
      THEN facadeCatch([call EXCEPT !.fnOutcome = outcome, !.lastError = outcome.val],
                       outcome.val)
      ELSE [call EXCEPT !.pc = "inflight", !.fnOutcome = outcome,
                        !.lastError = outcome.val,
                        !.attempt = @ + 1, !.fnCalls = @ + 1,
                        !.keyRequests = @ + 1]

\* settle, had the catch block thrown the first error it saw instead of the
\* current one
settle_throwsFirstError(call0, response, outcome, jitter) ==
  LET call == [call0 EXCEPT !.received = response]
      first == IF call.lastError = Undefined THEN outcome.val ELSE call.lastError
  IN
  IF outcome.kind = "return"
    THEN onSuccess(call, outcome)
    ELSE IF shouldThrow(outcome.val, call.attempt)
      THEN facadeCatch([call EXCEPT !.fnOutcome = outcome, !.lastError = first],
                       first)
      ELSE [call EXCEPT !.pc = "sleeping", !.fnOutcome = outcome,
                        !.lastError = first,
                        !.delayMs = backoffDelay(call.attempt, jitter),
                        !.sleeps = @ + 1]

\* the promise of fn(apiKey) settles with outcome (lines 253-277)
settle(call0, response, outcome, jitter) ==
  LET call == [call0 EXCEPT !.received = response]
  IN
  IF outcome.kind = "return"
    THEN onSuccess(call, outcome)
    ELSE IF shouldThrow(outcome.val, call.attempt)
      THEN facadeCatch([call EXCEPT !.fnOutcome = outcome, !.lastError = outcome.val],
                       outcome.val)
      ELSE [call EXCEPT !.pc = "sleeping", !.fnOutcome = outcome,
                        !.lastError = outcome.val,
                        !.delayMs = backoffDelay(call.attempt, jitter),
                        !.sleeps = @ + 1]

\* Math.random() is only evaluated when the loop is going to wait
JitterChoices(call, outcome) ==
  IF outcome.kind = "throw" /\ ~shouldThrow(outcome.val, call.attempt)
    THEN Jitters ELSE {0}

(***************************************************************************)
(* The application shell's study material.  A field a Flashcard does not   *)
(* have yet is Absent; easeFactor is in hundredths; nextReview is in days  *)
(* after the Date.now() of the rating.                                     *)
(***************************************************************************)
Absent == -1

Flashcard(question) ==
  [question |-> question, interval |-> Absent, easeFactor |-> Absent,
   nextReview |-> Absent]

\* SM-2: the new interval, ease factor and review date of a rated card
calculateNextReview(quality, interval0, easeFactor0) ==
  LET interval == IF interval0 = Absent THEN 0 ELSE interval0
      easeFactor == IF easeFactor0 = Absent THEN 250 ELSE easeFactor0
      newInterval ==
        IF quality >= 3
          THEN IF interval = 0 THEN 1
               ELSE IF interval = 1 THEN 3
               ELSE (interval * easeFactor + 50) \div 100
          ELSE 1
      adjusted == easeFactor + 10 - (5 - quality) * (8 + (5 - quality) * 2)
      newEaseFactor == IF adjusted < 130 THEN 130 ELSE adjusted
  IN [interval |-> newInterval, easeFactor |-> newEaseFactor,
      nextReview |-> newInterval]

\* StudyMaterial as the shell holds it; the summary is a list of parts
StudyMaterial(flashcards, quiz, unprocessedContent) ==
  [title |-> "T", summary |-> <<"S">>, flashcards |-> flashcards,
   quiz |-> quiz, unprocessedContent |-> unprocessedContent,
   contentCoveragePercent |-> IF unprocessedContent = "" THEN 100 ELSE 50]

NoMaterial == StudyMaterial(<<>>, <<>>, "")

\* the shell before a document is loaded (useState initial values)
NoShell ==
  [material |-> NoMaterial, viewMode |-> "summary", isExtending |-> FALSE,
   extending |-> <<>>, loadingMore |-> <<>>, events |-> 0]

Init ==
  /\ env \in Envs
  /\ keys = constructor(env)
  /\ currentIndex = 0
  /\ handedOut = <<>>
  /\ started = 0
  /\ calls = [c \in {1} |-> IdleCall]
  /\ shell = NoShell

\* KeyManagerAfter, had every invocation counted the cursor from its own
\* attempt number instead of sharing one
KeyManagerAfter_ownCursor(call, got) ==
  IF call.attempt < maxRetries
    THEN /\ currentIndex' = IF Len(keys) = 0 THEN 0
                             ELSE (call.attempt + 1) % Len(keys)
         /\ handedOut' = Append(handedOut, got.key)
    ELSE UNCHANGED <<currentIndex, handedOut>>

\* the cursor and the history after the loop head of call ran
KeyManagerAfter(call, got) ==
  IF call.attempt < maxRetries
    THEN /\ currentIndex' = got.index
         /\ handedOut' = Append(handedOut, got.key)
    ELSE UNCHANGED <<currentIndex, handedOut>>

\* A facade function is called, as one of at most limit invocations; it runs
\* up to its first remote call.
InvokeWithin(c, task, arg, limit) ==
  /\ calls[c].pc \in {"idle", "done"}
  /\ started < limit
  /\ LET got == getNextKey(keys, currentIndex)
     IN /\ calls' = [calls EXCEPT ![c] = enterLoop(NewCall(task, arg), got)]
        /\ KeyManagerAfter(NewCall(task, arg), got)
  /\ started' = started + 1
  /\ UNCHANGED <<env, keys, shell>>

Invoke(c, task, arg) == InvokeWithin(c, task, arg, MaxFacadeCalls)

\* generateContent rejects with error; Math.random() gives jitter.
RejectedWith(c, error, jitter) ==
  /\ calls[c].pc = "inflight"
  /\ calls' = [calls EXCEPT ![c] =
                settle(@, [kind |-> "rejected", val |-> error],
                       Throw(error), jitter)]
  /\ UNCHANGED <<env, keys, currentIndex, handedOut, started, shell>>

\* generateContent rejects.
RemoteFails(c) ==
  \E error \in RemoteErrors :
    \E jitter \in JitterChoices(calls[c], Throw(error)) :
      RejectedWith(c, error, jitter)

\* parseResponse, tabulated over the tasks and response texts of the model
ParsedOutcomes ==
  [task \in Tasks |->
     [respText \in ResponseTexts |->
        [echo \in BOOLEAN |-> parseResponse(task, respText, echo)]]]

\* the engine words a SyntaxError only when JSON.parse throws one
EchoChoices(task, respText) ==
  LET outcome == ParsedOutcomes[task][respText][FALSE]
  IN IF outcome.kind = "throw" /\ outcome.val.v.name = "SyntaxError"
       THEN BOOLEAN ELSE {FALSE}

\* generateContent resolves with respText; the callback parses it.
ResolvedWith(c, respText, echo, jitter) ==
  /\ calls[c].pc = "inflight"
  /\ calls' = [calls EXCEPT ![c] =
                settle(@, [kind |-> "resolved", val |-> respText],
                       ParsedOutcomes[calls[c].task][respText][echo], jitter)]
  /\ UNCHANGED <<env, keys, currentIndex, handedOut, started, shell>>

\* generateContent resolves; the callback parses response.text.
RemoteResponds(c) ==
  /\ calls[c].pc = "inflight"
  /\ \E respText \in ResponseTexts :
     \E echo \in EchoChoices(calls[c].task, respText) :
       \E jitter \in JitterChoices(calls[c],
                                   ParsedOutcomes[calls[c].task][respText][echo]) :
         ResolvedWith(c, respText, echo, jitter)

\* DelayElapses, had the retry removed the failed attempt's key from the pool
DelayElapses_dropsFailedKey(c) ==
  /\ calls[c].pc = "sleeping"
  /\ LET next == [calls[c] EXCEPT !.attempt = @ + 1]
         kept == SelectSeq(keys, LAMBDA k : k # calls[c].apiKey)
         got == getNextKey(kept, 0)
     IN /\ calls' = [calls EXCEPT ![c] = enterLoop(next, got)]
        /\ keys' = kept
        /\ currentIndex' = got.index
        /\ handedOut' = Append(handedOut, got.key)
  /\ UNCHANGED <<env, started, shell>>

\* The timer of line 276 fires: next pass of the loop.
DelayElapses(c) ==
  /\ calls[c].pc = "sleeping"
  /\ LET next == [calls[c] EXCEPT !.attempt = @ + 1]
         got == getNextKey(keys, currentIndex)
     IN /\ calls' = [calls EXCEPT ![c] = enterLoop(next, got)]
        /\ KeyManagerAfter(next, got)
  /\ UNCHANGED <<env, keys, started, shell>>

Next ==
  \/ \E c \in Calls, task \in Tasks, arg \in DomainArgs : Invoke(c, task, arg)
  \/ \E c \in Calls : RemoteFails(c)
  \/ \E c \in Calls : RemoteResponds(c)
  \/ \E c \in Calls : DelayElapses(c)

Spec == Init /\ [][Next]_vars

(***************************************************************************)
(* Concurrent invocations.  The task functions are async: the shell can    *)
(* have a quiz extension and a flashcard Load More in flight at once, all  *)
(* sharing the one keyManager.  Every await is a point where the other     *)
(* invocation can run; between awaits a step is atomic.                    *)
(***************************************************************************)
\* the tasks the shell starts while another may be running
ConcTasks == {"extendQuiz", "generateAdditionalFlashcards"}

\* one retryable and one non-retryable rejection
ConcErrors ==
  { Err("ApiError", JNum(429), JStr(<<"q", "u", "o", "t", "a">>)),
    Err("ApiError", JNum(500), JStr(<<"i", "n", "t", "e", "r", "n", "a", "l">>)) }

InitConc ==
  /\ env \in {EnvOf(n) : n \in 0..MaxEnvKeys}
  /\ keys = constructor(env)
  /\ currentIndex = 0
  /\ handedOut = <<>>
  /\ started = 0
  /\ calls = [c \in 1..MaxConcurrentCalls |-> IdleCall]
  /\ shell = NoShell

\* The shell calls a task function (without a domain argument) while the
\* other slot may be busy; every slot runs one invocation.
ConcInvoke(c, task) ==
  /\ calls[c].pc = "idle"
  /\ InvokeWithin(c, task, Omitted, MaxConcurrentCalls)

NextConc ==
  \/ \E c \in Calls, task \in ConcTasks : ConcInvoke(c, task)
  \/ \E c \in Calls, error \in ConcErrors : RejectedWith(c, error, 0)
  \/ \E c \in Calls : ResolvedWith(c, JStr(tList2), FALSE, 0)
  \/ \E c \in Calls : DelayElapses(c)

SpecConc == InitConc /\ [][NextConc]_vars

(***************************************************************************)
(* The application shell.  Every handler is a closure of the render it was *)
(* created in: the material it reads after an await is the material of     *)
(* that render.  A task function is seen here by its result only.          *)
(***************************************************************************)
\* results of extendQuiz / generateQuestionForFailure: no question, the
\* one-question FALLBACK_QUIZ, two new questions
QuestionResults == {<<>>, <<"fallback-q">>, <<"n1", "n2">>}

\* results of generateAdditionalFlashcards: the empty fallback, one new card
CardResults == {<<>>, <<Flashcard("c3")>>}

\* results of processStudyContent: generated material, FALLBACK_STUDY_MATERIAL
MaterialResults ==
  { [summary |-> <<"S2">>, flashcards |-> <<Flashcard("c4")>>, quiz |-> <<"q2">>],
    [summary |-> <<"fallback">>, flashcards |-> <<Flashcard("fallback-c")>>,
     quiz |-> <<"fallback-q">>] }

\* a document has been processed and its material is on screen
InitApp ==
  /\ env = EnvOf(1)
  /\ keys = constructor(env)
  /\ currentIndex = 0
  /\ handedOut = <<>>
  /\ started = 0
  /\ calls = [c \in {1} |-> IdleCall]
  /\ \E unprocessedContent \in {"", "rest"} :
       shell = [NoShell EXCEPT
                  !.material = StudyMaterial(<<Flashcard("c1"), Flashcard("c2")>>,
                                             <<"q1">>, unprocessedContent)]

ViewModes == {"summary", "flashcards", "quiz"}

\* a navigation button
setViewMode(mode) ==
  /\ shell.viewMode # mode
  /\ shell' = [shell EXCEPT !.viewMode = mode]
  /\ UNCHANGED <<env, keys, currentIndex, handedOut, started, calls>>

\* the part of an extension handler before its await
startExtension(handler, task) ==
  /\ shell.viewMode = "quiz"
  /\ ~shell.isExtending
  /\ shell.events < MaxShellEvents
  /\ shell' = [shell EXCEPT
                !.isExtending = TRUE,
                !.extending = <<[handler |-> handler, task |-> task,
                                 material |-> shell.material]>>,
                !.events = @ + 1]
  /\ UNCHANGED <<env, keys, currentIndex, handedOut, started, calls>>

\* handleKeepGoing up to its await
handleKeepGoing ==
  startExtension("handleKeepGoing",
                 IF shell.material.unprocessedContent # ""
                   THEN "processStudyContent" ELSE "extendQuiz")

\* handleQuestionFailed up to its await
handleQuestionFailed ==
  startExtension("handleQuestionFailed", "generateQuestionForFailure")

\* handleKeepGoing after await processStudyContent(...)
MaterialArrives(newMaterial) ==
  /\ Len(shell.extending) = 1
  /\ shell.extending[1].task = "processStudyContent"
  /\ LET material == shell.extending[1].material
     IN shell' = [shell EXCEPT
                   !.material =
                     [material EXCEPT
                        !.summary = @ \o <<"[Continued from remaining content]">>
                                      \o newMaterial.summary,
                        !.flashcards = @ \o newMaterial.flashcards,
                        !.quiz = @ \o newMaterial.quiz,
                        !.unprocessedContent = "",
                        !.contentCoveragePercent = 100],
                   !.isExtending = FALSE,
                   !.extending = <<>>]
  /\ UNCHANGED <<env, keys, currentIndex, handedOut, started, calls>>

\* handleKeepGoing after await extendQuiz(...); handleQuestionFailed after
\* await generateQuestionForFailure(...)
QuestionsArrive(newQuestions) ==
  /\ Len(shell.extending) = 1
  /\ shell.extending[1].task \in {"extendQuiz", "generateQuestionForFailure"}
  /\ LET material == shell.extending[1].material
     IN shell' = [shell EXCEPT
                   !.material =
                     IF Len(newQuestions) > 0
                       THEN [material EXCEPT !.quiz = @ \o newQuestions]
                       ELSE shell.material,
                   !.isExtending = FALSE,
                   !.extending = <<>>]
  /\ UNCHANGED <<env, keys, currentIndex, handedOut, started, calls>>

\* the Hard / Good / Easy buttons of the flashcard on screen
onCardRated(cardIndex, quality) ==
  /\ shell.viewMode = "flashcards"
  /\ shell.events < MaxShellEvents
  /\ cardIndex \in 1..Len(shell.material.flashcards)
  /\ LET card == shell.material.flashcards[cardIndex]
         updated == calculateNextReview(quality, card.interval, card.easeFactor)
     IN shell' = [shell EXCEPT
                   !.material.flashcards[cardIndex] =
                     [card EXCEPT !.interval = updated.interval,
                                  !.easeFactor = updated.easeFactor,
                                  !.nextReview = updated.nextReview],
                   !.events = @ + 1]
  /\ UNCHANGED <<env, keys, currentIndex, handedOut, started, calls>>

\* FlashcardView.loadMore up to its await; onLoadMore is the prop of the
\* render the button was drawn in
loadMore ==
  /\ shell.viewMode = "flashcards"
  /\ Len(shell.loadingMore) = 0
  /\ shell.events < MaxShellEvents
  /\ shell' = [shell EXCEPT !.loadingMore = <<[material |-> shell.material]>>,
                            !.events = @ + 1]
  /\ UNCHANGED <<env, keys, currentIndex, handedOut, started, calls>>

\* loadMore after await generateAdditionalFlashcards(...), calling onLoadMore
onLoadMore(newCards) ==
  /\ Len(shell.loadingMore) = 1
  /\ LET material == shell.loadingMore[1].material
     IN shell' = [shell EXCEPT
                   !.material =
                     IF Len(newCards) > 0
                       THEN [material EXCEPT !.flashcards = @ \o newCards]
                       ELSE shell.material,
                   !.loadingMore = <<>>]
  /\ UNCHANGED <<env, keys, currentIndex, handedOut, started, calls>>

NextApp ==
  \/ \E mode \in ViewModes : setViewMode(mode)
  \/ handleKeepGoing
  \/ handleQuestionFailed
  \/ \E newMaterial \in MaterialResults : MaterialArrives(newMaterial)
  \/ \E newQuestions \in QuestionResults : QuestionsArrive(newQuestions)
  \/ \E cardIndex \in 1..Len(shell.material.flashcards), quality \in {1, 2, 3} : onCardRated(cardIndex, quality)
  \/ loadMore
  \/ \E newCards \in CardResults : onLoadMore(newCards)

SpecApp == InitApp /\ [][NextApp]_vars

(***************************************************************************)
(* Properties.                                                             *)
(***************************************************************************)

\* C1: with a pool of n >= 1 keys, the k-th getNextKey call since construction
\* returned keys[(k-1) mod n] (0-based), for every k so far.
C1_RoundRobin ==
  Len(keys) >= 1 =>
    \A k \in 1..Len(handedOut) : handedOut[k] = keys[((k - 1) % Len(keys)) + 1]

C1_Witness ==
  /\ Len(keys) >= 2
  /\ Len(handedOut) > Len(keys)
  /\ handedOut[Len(keys) + 1] = keys[1]

\* C2: when fn succeeds on attempt m (after m-1 retried failures), the run is
\* over at once: the facade has returned that very value, m keys were
\* requested, fn ran m times, m-1 delays were slept and nothing follows.
C2_SuccessAfterRetries ==
  \A c \in DOMAIN calls :
    calls[c].fnOutcome.kind = "return" =>
      /\ calls[c].pc = "done"
      /\ calls[c].completion = "returned"
      /\ calls[c].value = calls[c].fnOutcome.val
      /\ calls[c].keyRequests = calls[c].attempt + 1
      /\ calls[c].fnCalls = calls[c].attempt + 1
      /\ calls[c].sleeps = calls[c].attempt

C2_Witness ==
  \E c \in DOMAIN calls :
    /\ calls[c].pc = "done"
    /\ calls[c].fnOutcome.kind = "return"
    /\ calls[c].attempt = 2
    /\ calls[c].keyRequests = 3
    /\ calls[c].value # fallbackOf(calls[c].task)

\* The classification as the specification words it: status 503 or 429, or a
\* message containing "overloaded", "UNAVAILABLE" or "fetch failed".
SpecRetryable(error) ==
  /\ error.t = "error"
  /\ \/ error.v.status \in {JNum(503), JNum(429)}
     \/ /\ error.v.message.t = "string"
        /\ \E needle \in {sOverloaded, sUNAVAILABLE, sFetchFailed} :
             includes(error.v.message.v, needle)

\* C3: a non-retryable failure is propagated right after the attempt that
\* raised it; on the first attempt that is one fn call, one key request and
\* no delay.
C3_NonRetryablePropagates ==
  \A c \in DOMAIN calls :
    (calls[c].fnOutcome.kind = "throw" /\ ~SpecRetryable(calls[c].fnOutcome.val)) =>
      /\ calls[c].pc = "done"
      /\ calls[c].thrown = calls[c].fnOutcome.val
      /\ calls[c].fnCalls = calls[c].attempt + 1
      /\ calls[c].keyRequests = calls[c].attempt + 1
      /\ calls[c].sleeps = calls[c].attempt

C3_Witness ==
  \E c \in DOMAIN calls :
    /\ calls[c].pc = "done"
    /\ calls[c].fnOutcome.kind = "throw"
    /\ ~SpecRetryable(calls[c].fnOutcome.val)
    /\ calls[c].fnCalls = 1
    /\ calls[c].keyRequests = 1
    /\ calls[c].sleeps = 0

\* State part of C4: fn runs at most maxRetries times; a failure of the last
\* attempt is propagated without a delay; a finished run slept exactly one
\* delay less than it ran fn; a run that is not finished can take a step.
C4_Bounded ==
  \A c \in DOMAIN calls :
    /\ calls[c].fnCalls <= maxRetries
    /\ calls[c].pc = "inflight" => calls[c].sleeps = calls[c].fnCalls - 1
    /\ calls[c].pc = "sleeping" =>
         calls[c].sleeps = calls[c].fnCalls /\ calls[c].fnCalls < maxRetries
    /\ calls[c].pc = "done" => calls[c].sleeps = calls[c].fnCalls - 1
    /\ (/\ calls[c].fnOutcome.kind = "throw"
        /\ calls[c].fnCalls = maxRetries
        /\ calls[c].pc # "inflight") =>
         calls[c].pc = "done" /\ calls[c].thrown = calls[c].fnOutcome.val
    /\ calls[c].pc = "inflight" => ENABLED RemoteFails(c)
    /\ calls[c].pc = "sleeping" => ENABLED DelayElapses(c)

\* Step part of C4: every step of an unfinished run either finishes it or adds
\* one to the number of fn calls plus delays, which C4_Bounded caps.
C4_Progress ==
  \A c \in DOMAIN calls :
    (calls[c].pc \in {"inflight", "sleeping"} /\ calls'[c] # calls[c]) =>
      \/ calls'[c].pc = "done"
      \/ /\ calls'[c].pc \in {"inflight", "sleeping"}
         /\ calls'[c].fnCalls + calls'[c].sleeps
              = calls[c].fnCalls + calls[c].sleeps + 1

C5_Classification ==
  \A c \in DOMAIN calls :
    calls[c].fnOutcome.kind = "throw" =>
      /\ calls[c].pc \in {"sleeping", "inflight", "done"}
      /\ calls[c].pc \in {"sleeping", "inflight"} =>
           SpecRetryable(calls[c].fnOutcome.val)
      /\ (calls[c].pc = "done" /\ calls[c].fnCalls < maxRetries) =>
           ~SpecRetryable(calls[c].fnOutcome.val)

\* the message "Overloaded" (capital O) is not retried
C5_Witness ==
  \E c \in DOMAIN calls :
    /\ calls[c].pc = "done"
    /\ calls[c].fnCalls = 1
    /\ calls[c].fnOutcome.kind = "throw"
    /\ calls[c].fnOutcome.val.v.message =
         JStr(<<"O", "v", "e", "r", "l", "o", "a", "d", "e", "d">>)

C7_NeverRaises ==
  \A c \in DOMAIN calls :
    /\ calls[c].completion # "raised"
    /\ calls[c].pc = "done" =>
         /\ calls[c].completion = "returned"
         /\ calls[c].value =
              IF calls[c].fnOutcome.kind = "return"
                THEN calls[c].fnOutcome.val
                ELSE fallbackOf(calls[c].task)

\* a call that ended on a malformed response after retried failures
C7_Witness ==
  \E c \in DOMAIN calls :
    /\ calls[c].pc = "done"
    /\ calls[c].completion = "returned"
    /\ calls[c].fnCalls > 1
    /\ calls[c].thrown.t = "error"
    /\ calls[c].thrown.v.name = "SyntaxError"

\* C8: when retryWithBackoff throws, processStudyContent returns the fixed
\* fallback: title "Study Material", the fixed summary, one flashcard and one
\* quiz question.
C8_FallbackStudyMaterial ==
  \A c \in DOMAIN calls :
    (/\ calls[c].pc = "done"
     /\ calls[c].task = "processStudyContent"
     /\ calls[c].fnOutcome.kind = "throw") =>
      /\ calls[c].value = FALLBACK_STUDY_MATERIAL
      /\ GetProp(calls[c].value, kTitle) = JStr(sFbTitle)
      /\ GetProp(calls[c].value, kSummary) = JStr(sFbSummary)
      /\ Len(GetProp(calls[c].value, kFlashcards).v) = 1
      /\ Len(GetProp(calls[c].value, kQuiz).v) = 1

\* retries exhausted
C8_Witness ==
  \E c \in DOMAIN calls :
    /\ calls[c].pc = "done"
    /\ calls[c].task = "processStudyContent"
    /\ calls[c].fnCalls = maxRetries
    /\ calls[c].fnOutcome.kind = "throw"
    /\ calls[c].value = FALLBACK_STUDY_MATERIAL

\* {title: "T", summary: "S", flashcards: [], quiz: []}
MinimalPayload ==
  JObj(<<Member(kTitle, JStr(<<"T">>)), Member(kSummary, JStr(<<"S">>)),
         Member(kFlashcards, JArr(<<>>)), Member(kQuiz, JArr(<<>>))>>)

\* C9: a response carrying the minimally valid payload (title and summary,
\* empty lists) makes processStudyContent return exactly that payload, never
\* the fallback.
C9_SparsePayloadReturned ==
  \A c \in DOMAIN calls :
    (/\ calls[c].pc = "done"
     /\ calls[c].task = "processStudyContent"
     /\ calls[c].received = [kind |-> "resolved", val |-> JStr(tMinimal)]) =>
      /\ calls[c].value = MinimalPayload
      /\ calls[c].value # FALLBACK_STUDY_MATERIAL

C9_Witness ==
  \E c \in DOMAIN calls :
    /\ calls[c].pc = "done"
    /\ calls[c].task = "processStudyContent"
    /\ calls[c].received = [kind |-> "resolved", val |-> JStr(tMinimal)]
    /\ calls[c].value = MinimalPayload

\* C10: processStudyContent never returns, as the result of a successful
\* attempt, a value without a non-empty title and a non-empty summary.
C10_ResultHasTitleAndSummary ==
  \A c \in DOMAIN calls :
    (/\ calls[c].pc = "done"
     /\ calls[c].task = "processStudyContent"
     /\ calls[c].fnOutcome.kind = "return") =>
      /\ Truthy(GetProp(calls[c].value, kTitle))
      /\ Truthy(GetProp(calls[c].value, kSummary))

\* s without its last character
dropLast(s) == SubSeq(s, 1, Len(s) - 1)

\* the texts of the model that are well-formed JSON objects ending in "}"
WellFormedObjectTexts ==
  {w \in Texts : /\ JSONparse(w).ok
                 /\ JSONparse(w).val.t = "object"
                 /\ w[Len(w)] = "}"}

\* {title: "T", summary: "S"}
WellFormedPayload ==
  JObj(<<Member(kTitle, JStr(<<"T">>)), Member(kSummary, JStr(<<"S">>))>>)

\* the attempt of call c received text and returned val
ReturnedFor(c, text, val) ==
  (/\ calls[c].task = "processStudyContent"
   /\ calls[c].received = [kind |-> "resolved", val |-> JStr(text)]) =>
    /\ calls[c].fnOutcome = Return(val)
    /\ calls[c].pc = "done"
    /\ calls[c].value = val

\* C11 as stated: whenever processStudyContent receives a well-formed object
\* text without its final closing brace, the attempt returns exactly the value
\* JSON.parse gives for the well-formed text.
C11_TruncatedObjectRepaired ==
  \A c \in DOMAIN calls : \A w \in WellFormedObjectTexts :
    ReturnedFor(c, dropLast(w), JSONparse(w).val)

\* C11, amended: the same, for the texts whose remainder does not itself end
\* in a closing brace (with or without surrounding whitespace); for the text
\* {"title":"T","summary":"S" the value is {title: "T", summary: "S"}.
C11_TruncatedFlatObjectRepaired ==
  \A c \in DOMAIN calls :
    /\ \A w \in WellFormedObjectTexts :
         ~endsWith(dropLast(w), <<"}">>) =>
           /\ ReturnedFor(c, dropLast(w), JSONparse(w).val)
           /\ ReturnedFor(c, <<" ">> \o dropLast(w) \o <<"\n">>, JSONparse(w).val)
    /\ ReturnedFor(c, dropLast(tWellFormed), WellFormedPayload)

C11_Witness ==
  \E c \in DOMAIN calls :
    /\ calls[c].pc = "done"
    /\ calls[c].task = "processStudyContent"
    /\ calls[c].received = [kind |-> "resolved", val |-> JStr(dropLast(tWellFormed))]
    /\ calls[c].fnOutcome = Return(WellFormedPayload)
    /\ calls[c].value = JSONparse(tWellFormed).val

\* the closing tokens one repair could supply: none, a quote, a brace, a bracket
ClosingTokens == {<<>>, <<Q>>, <<"}">>, <<"]">>}

\* text lacks two or more structural tokens: no single closing token
\* completes it to well-formed JSON
MissingTwoOrMore(text) ==
  \A tok \in ClosingTokens : ~JSONparse(text \o tok).ok

\* C12: a non-empty response text that no single closing token completes makes
\* the attempt fail with the SyntaxError of JSON.parse, in every task; it never
\* becomes a returned value, and a call that ends on it returns the fallback.
C12_SingleRepairOnly ==
  \A c \in DOMAIN calls :
    (/\ calls[c].received.kind = "resolved"
     /\ Truthy(calls[c].received.val)
     /\ MissingTwoOrMore(calls[c].received.val.v)) =>
      /\ calls[c].fnOutcome.kind = "throw"
      /\ calls[c].fnOutcome.val.v.name = "SyntaxError"
      /\ calls[c].pc = "done" => calls[c].value = fallbackOf(calls[c].task)

\* {"title":"T   (the closing quote and the closing brace are missing)
C12_Witness ==
  \E c \in DOMAIN calls :
    /\ calls[c].pc = "done"
    /\ calls[c].task = "processStudyContent"
    /\ calls[c].received =
         [kind |-> "resolved",
          val |-> JStr(<<"{">> \o Pair(kTitle, <<Q, "T">>))]
    /\ calls[c].fnOutcome.kind = "throw"
    /\ calls[c].value = FALLBACK_STUDY_MATERIAL

\* C13: the pool holds no empty string and no placeholder; when every
\* configured credential is the placeholder, the pool is empty.
C13_PoolHasNoPlaceholder ==
  /\ \A i \in 1..Len(keys) : keys[i] # "" /\ keys[i] # PLACEHOLDER_API_KEY
  /\ (\A i \in 1..Len(env) :
        HasKeyPrefix(env[i]) => env[i].value = PLACEHOLDER_API_KEY) => keys = <<>>

\* C14: with an empty pool every getNextKey call so far returned "", each call
\* of the loop got its key (no call raised), and the cursor is still 0.
C14_EmptyPoolYieldsEmptyString ==
  keys = <<>> =>
    /\ currentIndex = 0
    /\ \A k \in 1..Len(handedOut) : handedOut[k] = ""
    /\ \A c \in DOMAIN calls :
         /\ calls[c].keyRequests <= Len(handedOut)
         /\ calls[c].pc = "sleeping" => ENABLED DelayElapses(c)

C14_Witness ==
  /\ keys = <<>>
  /\ Len(handedOut) >= 2
  /\ handedOut[2] = ""
  /\ currentIndex = 0

\* C15: with an empty pool a facade call that has started has invoked fn at
\* least once, the call in flight carries the empty credential, and a failure
\* is retried when retryable and otherwise ends in the task's fallback.
C15_EmptyPoolStillCalls ==
  keys = <<>> =>
    \A c \in DOMAIN calls :
      /\ calls[c].pc # "idle" => calls[c].fnCalls >= 1
      /\ calls[c].pc = "inflight" => calls[c].apiKey = ""
      /\ calls[c].pc = "sleeping" => SpecRetryable(calls[c].fnOutcome.val)
      /\ (calls[c].pc = "done" /\ calls[c].fnOutcome.kind = "throw") =>
           /\ calls[c].completion = "returned"
           /\ calls[c].value = fallbackOf(calls[c].task)

\* the remote call failed on every attempt
C15_Witness ==
  \E c \in DOMAIN calls :
    /\ keys = <<>>
    /\ calls[c].pc = "done"
    /\ calls[c].fnCalls = maxRetries
    /\ calls[c].received.kind = "rejected"
    /\ calls[c].value = fallbackOf(calls[c].task)
    /\ \A k \in 1..Len(handedOut) : handedOut[k] = ""

\* the key getNextKey returns at cursor index, and the cursor after it
KeyAt(index) == IF keys = <<>> THEN "" ELSE keys[index + 1]

CursorAfter(index) == IF keys = <<>> THEN index ELSE (index + 1) % Len(keys)

\* State part of C16: a run has requested as many keys as it has invoked fn,
\* the call in flight carries the key handed out last, and the cursor has
\* advanced once per key handed out.
C16_OneKeyPerAttempt ==
  /\ keys # <<>> => currentIndex = Len(handedOut) % Len(keys)
  /\ \A c \in DOMAIN calls :
       /\ calls[c].keyRequests = calls[c].fnCalls
       /\ calls[c].fnCalls = IF calls[c].pc = "idle" THEN 0 ELSE calls[c].attempt + 1
       /\ calls[c].pc = "inflight" =>
            /\ handedOut # <<>>
            /\ calls[c].apiKey = handedOut[Len(handedOut)]

\* Step part of C16: a step that starts an attempt (the first one included)
\* makes exactly one getNextKey call, before fn is invoked with that key; no
\* other step touches the key manager.
C16_KeyStep ==
  \A c \in DOMAIN calls :
    IF calls'[c].pc = "inflight" /\ calls[c].pc # "inflight"
      THEN /\ handedOut' = Append(handedOut, KeyAt(currentIndex))
           /\ currentIndex' = CursorAfter(currentIndex)
           /\ calls'[c].apiKey = KeyAt(currentIndex)
           /\ calls'[c].keyRequests =
                (IF calls[c].pc = "sleeping" THEN calls[c].keyRequests ELSE 0) + 1
      ELSE calls'[c].keyRequests = calls[c].keyRequests

\* C16: every attempt, the first included, takes one fresh key by one
\* getNextKey call and invokes fn with exactly that key, so a run of a
\* attempts advances the cursor by a steps modulo the pool size.
C16_FreshKeyEveryAttempt == []C16_OneKeyPerAttempt /\ [][C16_KeyStep]_vars

\* three attempts on a pool of two keys: the third attempt uses the first key
\* again and leaves the cursor at 1
C16_Witness ==
  \E c \in DOMAIN calls :
    /\ Len(keys) = 2
    /\ calls[c].pc = "inflight"
    /\ calls[c].attempt = 2
    /\ calls[c].keyRequests = 3
    /\ calls[c].apiKey = keys[1]
    /\ handedOut = <<keys[1], keys[2], keys[1]>>
    /\ currentIndex = 1

\* C17: what retryWithBackoff throws is the very error the last invocation of
\* fn threw; a run whose last invocation returned throws nothing.
C17_LastErrorVerbatim ==
  \A c \in DOMAIN calls :
    /\ calls[c].pc # "done" => calls[c].thrown = Undefined
    /\ (calls[c].pc = "done" /\ calls[c].fnOutcome.kind = "return") =>
         calls[c].thrown = Undefined
    /\ (calls[c].pc = "done" /\ calls[c].fnOutcome.kind = "throw") =>
         /\ calls[c].thrown = calls[c].fnOutcome.val
         /\ calls[c].received.kind = "rejected" =>
              calls[c].thrown = calls[c].received.val

\* a retried failure followed by a status-500 failure: the 500 error is thrown
C17_Witness ==
  \E c \in DOMAIN calls :
    /\ calls[c].pc = "done"
    /\ calls[c].fnCalls = 2
    /\ calls[c].sleeps = 1
    /\ calls[c].thrown.t = "error"
    /\ calls[c].thrown.v.status = JNum(500)
    /\ calls[c].thrown = calls[c].received.val

\* C18: while a call made with a domain that is no StudyDomain is under way,
\* the request it sends carries the default (PA) system instruction.
C18_UnknownDomainGetsDefault ==
  \A c \in DOMAIN calls :
    (/\ calls[c].pc \in {"inflight", "sleeping"}
     /\ calls[c].task # "generateAdditionalFlashcards"
     /\ calls[c].domain \notin Domains) =>
      calls[c].request.systemInstruction = DEFAULT_SYSTEM_INSTRUCTION

\* the tasks whose result is a list
ListTasks == {"extendQuiz", "generateQuestionForFailure", "generateAdditionalFlashcards"}

\* C19: below the facade nothing stands in for a missing or wrongly shaped
\* response: an attempt that received an empty or absent text, or in a list
\* task a text whose parsed value is not a list, has thrown, not returned.
C19_NoDefaultBelowFacade ==
  \A c \in DOMAIN calls :
    calls[c].received.kind = "resolved" =>
      /\ ~Truthy(calls[c].received.val) => calls[c].fnOutcome.kind = "throw"
      /\ (/\ calls[c].task \in ListTasks
          /\ Truthy(calls[c].received.val)
          /\ JSONparse(calls[c].received.val.v).ok
          /\ ~isArray(JSONparse(calls[c].received.val.v).val)) =>
           calls[c].fnOutcome.kind = "throw"

\* C20: when every attempt has failed, generateAdditionalFlashcards returns a
\* non-empty list: the one fixed fallback card.
C20_FlashcardFallbackNonEmpty ==
  \A c \in DOMAIN calls :
    (/\ calls[c].pc = "done"
     /\ calls[c].task = "generateAdditionalFlashcards"
     /\ calls[c].fnOutcome.kind = "throw") =>
      /\ isArray(calls[c].value)
      /\ Len(calls[c].value.v) = 1

\* C21: when retryWithBackoff throws (a non-retryable error, a malformed
\* response or the failure of the last attempt), extendQuiz and
\* generateQuestionForFailure return exactly FALLBACK_QUIZ, a list of one
\* question.
C21_QuizFallback ==
  \A c \in DOMAIN calls :
    (/\ calls[c].pc = "done"
     /\ calls[c].task \in {"extendQuiz", "generateQuestionForFailure"}
     /\ calls[c].fnOutcome.kind = "throw") =>
      /\ calls[c].completion = "returned"
      /\ calls[c].value = FALLBACK_QUIZ
      /\ Len(calls[c].value.v) = 1
      /\ GetProp(calls[c].value.v[1], kQuestion) = JStr(sFbReviewQuestion)
      /\ Len(GetProp(calls[c].value.v[1], kOptions).v) = 4

\* generateQuestionForFailure after five retryable failures
C21_Witness ==
  \E c \in DOMAIN calls :
    /\ calls[c].pc = "done"
    /\ calls[c].task = "generateQuestionForFailure"
    /\ calls[c].fnCalls = maxRetries
    /\ calls[c].fnOutcome.kind = "throw"
    /\ calls[c].value = FALLBACK_QUIZ

\* the rejection with HTTP status 429
Error429 == Err("ApiError", JNum(429), JStr(<<"q", "u", "o", "t", "a">>))

\* [{q: "A"}, {q: "B"}]
List2Payload ==
  JArr(<<JObj(<<Member(<<"q">>, JStr(<<"A">>))>>),
         JObj(<<Member(<<"q">>, JStr(<<"B">>))>>)>>)

\* the scenario of C22 for an extendQuiz call, with the first delay in
\* [lo, hi): after a 429 on the first attempt one delay in that interval is
\* slept, and when the second attempt receives the 2-item list the call
\* returns that list after exactly that one delay
QuizScenario(c, lo, hi) ==
  calls[c].task = "extendQuiz" =>
    /\ (/\ calls[c].pc = "sleeping"
        /\ calls[c].attempt = 0
        /\ calls[c].fnOutcome = Throw(Error429)) =>
         /\ calls[c].sleeps = 1
         /\ calls[c].delayMs >= lo
         /\ calls[c].delayMs < hi
    /\ (/\ calls[c].pc = "done"
        /\ calls[c].fnCalls = 2
        /\ calls[c].received = [kind |-> "resolved", val |-> JStr(tList2)]) =>
         /\ calls[c].value = List2Payload
         /\ calls[c].sleeps = 1

C23_SequentialAttempts ==
  \A c \in DOMAIN calls :
    /\ (calls[c].pc = "inflight" /\ calls[c].attempt = 0) =>
         /\ calls[c].fnCalls = 1
         /\ calls[c].sleeps = 0
         /\ calls[c].fnOutcome = NoOutcome
    /\ (calls[c].pc = "inflight" /\ calls[c].attempt > 0) =>
         /\ calls[c].fnCalls = calls[c].attempt + 1
         /\ calls[c].sleeps = calls[c].attempt
         /\ calls[c].fnOutcome.kind = "throw"
         /\ SpecRetryable(calls[c].fnOutcome.val)
    /\ calls[c].pc = "sleeping" =>
         /\ calls[c].fnCalls = calls[c].attempt + 1
         /\ calls[c].fnOutcome.kind = "throw"
    /\ calls[c].pc = "done" =>
         /\ calls[c].fnCalls = calls[c].attempt + 1
         /\ calls[c].fnOutcome.kind \in {"return", "throw"}

C23_Witness ==
  \E c \in DOMAIN calls :
    /\ calls[c].pc = "inflight"
    /\ calls[c].attempt = 2
    /\ calls[c].fnCalls = 3
    /\ calls[c].sleeps = 2

\* C25: a step of a facade call leaves the key pool's credential list (and
\* the environment it was built from) as it was; of the shared state only the
\* cursor moves, and only by a getNextKey call. The instruction table, the
\* request parameters and the fallback payloads are constants of the module.
C25_OnlyCursorShared ==
  [][/\ keys' = keys
     /\ env' = env
     /\ currentIndex' # currentIndex => Len(handedOut') = Len(handedOut) + 1
     /\ started' \in {started, started + 1}]_vars

\* a whole call has run, with retries, and the cursor has moved
C25_Witness ==
  \E c \in DOMAIN calls :
    /\ calls[c].pc = "done"
    /\ calls[c].keyRequests >= 2
    /\ currentIndex # 0
    /\ Len(keys) >= 2
    /\ keys = constructor(env)

\* the text can be closed by appending the one delimiter
Repairable(text, open, close) ==
  /\ startsWith(trim(text), <<open>>)
  /\ ~endsWith(trim(text), <<close>>)
  /\ JSONparse(trim(text) \o <<close>>).ok

\* the last response of call c resolved with a text the strict parse rejects
StrictParseFailed(c) ==
  /\ calls[c].received.kind = "resolved"
  /\ Truthy(calls[c].received.val)
  /\ ~JSONparse(calls[c].received.val.v).ok

OwnOpen(task) == IF task = "processStudyContent" THEN "{" ELSE "["

OwnClose(task) == IF task = "processStudyContent" THEN "}" ELSE "]"

C28_MalformedNeverRetried ==
  \A c \in DOMAIN calls :
    calls[c].received.kind = "resolved" =>
      /\ calls[c].pc = "done"
      /\ calls[c].fnOutcome.kind = "throw" =>
           /\ calls[c].value = fallbackOf(calls[c].task)
           /\ calls[c].keyRequests = calls[c].fnCalls
           /\ calls[c].sleeps = calls[c].fnCalls - 1

\* C29: the cursor stays inside the pool (0 <= currentIndex < n for n >= 1,
\* 0 for the empty pool) and the pool is the one the constructor built.
C29_CursorInRange ==
  /\ currentIndex \in Nat
  /\ Len(keys) >= 1 => currentIndex < Len(keys)
  /\ Len(keys) = 0 => currentIndex = 0
  /\ keys = constructor(env)

\* the cursor has wrapped back to 0 after a full turn of a pool of two or more
C29_Witness ==
  /\ Len(keys) >= 2
  /\ Len(handedOut) = Len(keys)
  /\ currentIndex = 0

\* key requests made by the invocations in slots 1..n
RECURSIVE KeyRequestsUpTo(_)
KeyRequestsUpTo(n) ==
  IF n = 0 THEN 0 ELSE calls[n].keyRequests + KeyRequestsUpTo(n - 1)

\* C24: with invocations interleaved, every key request got its own turn of
\* the shared cursor: the k-th getNextKey call overall returned
\* keys[(k-1) mod n], none was skipped, and with n >= 2 no two consecutive
\* calls returned the same key.
C24_SerializedRoundRobin ==
  /\ Len(handedOut) = KeyRequestsUpTo(MaxConcurrentCalls)
  /\ Len(keys) >= 1 =>
       /\ \A k \in 1..Len(handedOut) :
            handedOut[k] = keys[((k - 1) % Len(keys)) + 1]
       /\ currentIndex = Len(handedOut) % Len(keys)
  /\ Len(keys) >= 2 =>
       \A k \in 1..(Len(handedOut) - 1) : handedOut[k] # handedOut[k + 1]

\* two invocations are running at once and their key requests alternated
C24_Witness ==
  /\ Len(keys) >= 2
  /\ calls[1].pc \in {"inflight", "sleeping"}
  /\ calls[2].pc \in {"inflight", "sleeping"}
  /\ calls[1].keyRequests >= 2
  /\ calls[2].keyRequests >= 2
  /\ calls[1].apiKey # calls[2].apiKey

\* C27 as stated: with two or more keys, the attempt that follows a delay
\* runs with another key than the attempt that failed before the delay,
\* however other invocations interleave.
C27_RetryChangesKey ==
  [][\A c \in DOMAIN calls :
       (/\ Len(keys) >= 2
        /\ calls[c].pc = "sleeping"
        /\ calls'[c].pc = "inflight") =>
         calls'[c].apiKey # calls[c].apiKey]_vars

\* list a is the beginning of list b
IsPrefix(a, b) == Len(a) <= Len(b) /\ SubSeq(b, 1, Len(a)) = a

\* C30 as stated: when an extension handler completes, the material holds
\* every flashcard (with its rating) and every question it held immediately
\* before, followed by what the handler added.
C30_ExtensionKeepsChanges ==
  [][(shell.isExtending /\ ~shell'.isExtending) =>
       /\ IsPrefix(shell.material.flashcards, shell'.material.flashcards)
       /\ IsPrefix(shell.material.quiz, shell'.material.quiz)]_vars

====
